---- MODULE Spec2Model ----
(***************************************************************************)
(* DepthImageToLaserScan::convert<T> (DepthImageToLaserScan.h, lines       *)
(* 186-231) as a state machine: one depth image, one pinhole camera model, *)
(* one LaserScan message, and the two nested loops of convert.             *)
(*                                                                         *)
(* Number representation.  Lengths (metres in the code) are integers in    *)
(* millimetres, angles (radians) are integers in milliradians, center_x is *)
(* kept in half pixels (center_x2) and center_y in quarter pixels          *)
(* (center_y4).  A float is a record [k, n]: k = "num" with value n, "nan",*)
(* or "inf" with sign n.  A raw 16 bit sample is a count of millimetres, a *)
(* raw 32 bit float sample is a length in metres (here: n millimetres).    *)
(*                                                                         *)
(* Undefined behaviour.  operator[] on depth_row and on scan_msg->ranges   *)
(* is unchecked.  An access outside the buffer either faults (pc =         *)
(* "fault") or goes through: a read then yields an arbitrary value of the  *)
(* element type, a write stores outside the buffer (logged, wrote = TRUE   *)
(* with an index outside 0..len-1).                                        *)
(***************************************************************************)
EXTENDS Integers, Sequences, FiniteSets

VARIABLES
  T,                \* template parameter of convert: "f32" or "u16"
  data,             \* depth_msg->data as rows of samples (row v is data[v+1])
  center_x2,        \* 2 * cam_model.cx()
  center_y4,        \* 4 * cam_model.cy()
  fx,               \* cam_model.fx()
  angle_min,        \* scan_msg->angle_min       (milliradians)
  angle_max,        \* scan_msg->angle_max
  angle_increment,  \* scan_msg->angle_increment
  range_min,        \* scan_msg->range_min       (float, millimetres)
  range_max,        \* scan_msg->range_max
  ranges,           \* scan_msg->ranges
  scan_height_,     \* member scan_height_
  scan_height,      \* parameter scan_height of convert
  offset,           \* local offset of convert
  v,                \* row loop variable
  u,                \* column loop variable
  pc,               \* "idle", "entry", "row", "col", "done", "fault"
  callsLeft,        \* conversions still to be requested
  setsLeft,         \* reconfigurations still to be requested
  log,              \* per call: one record per pixel the inner loop body ran on
  results           \* per scan height: ranges of the last call that returned

vars == <<T, data, center_x2, center_y4, fx, angle_min, angle_max,
          angle_increment, range_min, range_max, ranges, scan_height_,
          scan_height, offset, v, u, pc, callsLeft, setsLeft, log, results>>

(***************************************************************************)
(* Bounds of the model.                                                    *)
(***************************************************************************)
MaxRows == 3
MaxScanHeight == 3

(***************************************************************************)
(* Floats.                                                                 *)
(***************************************************************************)
Num(n) == [k |-> "num", n |-> n]
NaN == [k |-> "nan", n |-> 0]
PInf == [k |-> "inf", n |-> 1]
NInf == [k |-> "inf", n |-> -1]
Fault == [k |-> "fault", n |-> 0]

isfinite(x) == x.k = "num"

\* a < b on floats: false when either is NaN
FLess(a, b) ==
  IF a.k = "nan" \/ b.k = "nan" THEN FALSE
  ELSE IF a.k = "num" /\ b.k = "num" THEN a.n < b.n
  ELSE IF a.k = "inf" /\ b.k = "inf" THEN a.n < b.n
  ELSE IF a.k = "inf" THEN a.n < 0
  ELSE b.n > 0

\* conversion of a quotient to int, and C integer division: toward zero
TruncDiv(a, b) ==
  IF (a >= 0) = (b > 0) THEN (IF a >= 0 THEN a ELSE -a) \div (IF b > 0 THEN b ELSE -b)
  ELSE -((IF a >= 0 THEN a ELSE -a) \div (IF b > 0 THEN b ELSE -b))

RECURSIVE IsqrtIter(_, _, _)
IsqrtIter(n, lo, hi) ==
  IF lo >= hi THEN lo
  ELSE LET mid == (lo + hi + 1) \div 2
       IN IF mid * mid <= n THEN IsqrtIter(n, mid, hi) ELSE IsqrtIter(n, lo, mid - 1)

\* hypot(x, z) on millimetres, rounded down to a millimetre
hypot(x, z) == IsqrtIter(x * x + z * z, 0, 40000)

\* atan(k/4) in milliradians, k = 1..16
AtanTable == <<245, 464, 644, 785, 896, 983, 1052, 1107,
               1153, 1190, 1222, 1249, 1272, 1292, 1310, 1326>>

\* atan2(y, x) for x > 0 and 4*y/x an integer of magnitude at most 16
atan2(y, x) ==
  LET k == TruncDiv(4 * y, x)
  IN IF k = 0 THEN 0 ELSE IF k > 0 THEN AtanTable[k] ELSE -AtanTable[-k]

(***************************************************************************)
(* depth_traits.h (not in the sources): DepthTraits<T>::valid, ::toMeters. *)
(***************************************************************************)
valid(t, depth) == IF t = "u16" THEN depth.n # 0 ELSE isfinite(depth)

\* u16: depth * 0.001 metres; f32: depth
toMeters(t, depth) ==
  IF t = "u16" THEN Num((depth.n * 1000) \div 1000) ELSE depth

\* T(1): the count 1 for u16, 1.0 metre for f32
One(t) == IF t = "u16" THEN Num(1) ELSE Num(1000)

(***************************************************************************)
(* use_point (declared at line 163, body not in the sources).              *)
(***************************************************************************)
InWindow(x, rmin, rmax) == FLess(rmin, x) /\ FLess(x, rmax)

use_point(new_value, old_value, rmin, rmax) ==
  /\ InWindow(new_value, rmin, rmax)
  /\ (~InWindow(old_value, rmin, rmax) \/ FLess(new_value, old_value))

(***************************************************************************)
(* convert, lines 191-228.                                                 *)
(***************************************************************************)
Height == Len(data)
Width == Len(data[1])
RangesLen == Len(ranges)

\* line 196
unit_scaling == toMeters(T, One(T)).n

\* line 202: (int)(center_y - scan_height/2)
OffsetUpward(cy4, h) == TruncDiv(cy4 + 4 * TruncDiv(h, 2), 4)
Offset(cy4, h) == TruncDiv(cy4 - 4 * TruncDiv(h, 2), 4)

\* line 211: -atan2((u - center_x) * constant_x, unit_scaling), constant_x =
\* unit_scaling / fx; both arguments are scaled by 2 * fx
Bearing(col) == -atan2((2 * col - center_x2) * unit_scaling, 2 * fx * unit_scaling)

\* line 212: implicit conversion of the quotient to int
IndexOfBearing(th, amin, ainc) == TruncDiv(th - amin, ainc)
Index(col) == IndexOfBearing(Bearing(col), angle_min, angle_increment)

\* lines 210, 214-222: the candidate range of a sample at column col
RangeIgnoringX(t, depth, col) ==
  IF valid(t, depth) THEN toMeters(t, depth)
  ELSE IF t = "u16" THEN Num(depth.n * 1000) ELSE depth
Range(t, depth, col) ==
  IF valid(t, depth)
  THEN LET x == TruncDiv((2 * col - center_x2) * depth.n, 2 * fx)
           z == toMeters(t, depth).n
       IN Num(hypot(x, z))
  ELSE IF t = "u16" THEN Num(depth.n * 1000) ELSE depth

\* lines 226-228: the value of the bin after the if statement
AlwaysStore(r, old, rmin, rmax) == r
StoreShorter(r, old, rmin, rmax) ==
  IF FLess(r, old) \/ ~isfinite(old) THEN r ELSE old
Reduce(r, old, rmin, rmax) ==
  IF use_point(r, old, rmin, rmax) THEN r ELSE old

InBounds(index) == index >= 0 /\ index < RangesLen

\* line 208: depth_row[u]
SamplesOf(t) ==
  IF t = "u16" THEN {Num(0), Num(1000), Num(2000)}
  ELSE {NaN, Num(1000), Num(2000)}
DepthRead(row, col) ==
  IF row >= 0 /\ row < Height THEN {data[row + 1][col + 1]}
  ELSE SamplesOf(T) \cup {Fault}

\* line 226: scan_msg->ranges[index] as an rvalue
RangesRead(index) ==
  IF InBounds(index) THEN {ranges[index + 1]}
  ELSE {PInf, Num(1), Fault}

\* line 227: scan_msg->ranges[index] = r
Store(rs, index, r) ==
  IF index >= 0 /\ index < Len(rs) THEN [rs EXCEPT ![index + 1] = r] ELSE rs

Sentinel == PInf
Fresh(len) == [i \in 1..len |-> Sentinel]
NoResults == [h \in 0..MaxScanHeight |-> <<>>]

(***************************************************************************)
(* Inputs.                                                                 *)
(***************************************************************************)
Shell(amin, amax, ainc, len) ==
  [amin |-> amin, amax |-> amax, ainc |-> ainc, len |-> len]
Limits(lo, hi) == [lo |-> Num(lo), hi |-> Num(hi)]

\* two columns around center_x = 0.5: bearings +464 and -464
ShellDistinct == Shell(-464, 464, 928, 2)
ShellShared == Shell(-464, 464, 1000, 1)
ShellBelow == Shell(0, 500, 500, 2)
ShellShort == Shell(-464, 464, 400, 2)
ShellLow == Shell(100, 400, 300, 2)

\* one column at center_x = 0: bearing 0
TallShell == Shell(0, 0, 500, 1)
TallShellBelow == Shell(100, 400, 300, 2)
TallShellLow == Shell(400, 700, 300, 2)
TallShellHigh == Shell(-600, -100, 500, 1)

Images(t, rows, cols) == [1..rows -> [1..cols -> SamplesOf(t)]]
ConstantImages(t, rows, cols) ==
  {[i \in 1..rows |-> [j \in 1..cols |-> s]] : s \in SamplesOf(t)}

Input(t, d, cx2, cy4, sh, lim, h, calls, sets) ==
  [T |-> t, data |-> d, cx2 |-> cx2, cy4 |-> cy4, fx |-> 1, shell |-> sh,
   lim |-> lim, h |-> h, calls |-> calls, sets |-> sets]

\* 2 x 2 images, windows inside the image
GridInputs ==
  UNION {{Input(t, d, 1, cy4, sh, lim, h, 1, 0) :
            d \in Images(t, 2, 2),
            cy4 \in {2, 7},
            sh \in {ShellDistinct, ShellShared},
            lim \in {Limits(100, 10000), Limits(1200, 10000)},
            h \in 0..2} : t \in {"f32", "u16"}}

\* one column at center_x = 0 (bearing 0), any window
TallInputs ==
  UNION {{Input(t, d, 0, cy4, TallShell, lim, h, 1, 0) :
            d \in Images(t, MaxRows, 1),
            cy4 \in {0, 2, 7, 10},
            lim \in {Limits(100, 10000), Limits(1200, 10000)},
            h \in 0..MaxScanHeight} : t \in {"f32", "u16"}}

\* one column whose bearing falls below or outside the scan
TallEdgeInputs ==
  UNION {{Input(t, d, 0, cy4, sh, Limits(100, 10000), h, 1, 0) :
            d \in ConstantImages(t, MaxRows, 1),
            cy4 \in {0, 2, 7, 10},
            sh \in {TallShellBelow, TallShellLow, TallShellHigh},
            h \in 0..MaxScanHeight} : t \in {"f32", "u16"}}

\* 2 x 2 images whose columns fall outside the scan
EdgeInputs ==
  UNION {{Input(t, d, 1, cy4, sh, Limits(100, 10000), h, 1, 0) :
            d \in ConstantImages(t, 2, 2),
            cy4 \in {2, 7},
            sh \in {ShellBelow, ShellShort, ShellLow},
            h \in 1..2} : t \in {"f32", "u16"}}

\* two conversions of one image, the scan height set in between
PairInputs ==
  {Input("f32", d, 1, cy4, sh, Limits(100, 10000), 1, 2, 1) :
     d \in Images("f32", 2, 2),
     cy4 \in {2, 7},
     sh \in {ShellDistinct, ShellShared}}
  \cup
  {Input("f32", d, 0, cy4, TallShell, lim, 1, 2, 1) :
     d \in Images("f32", MaxRows, 1),
     cy4 \in {2, 7},
     lim \in {Limits(100, 10000), Limits(1200, 10000)}}

\* one row of two float samples, the non-finite ones included; fx = 1 or 2
SpecialInputs ==
  {[Input("f32", <<<<a, b>>>>, 1, 2, sh, Limits(100, 10000), 1, 1, 0)
      EXCEPT !.fx = f] :
     a \in {NaN, PInf, NInf, Num(1000)},
     b \in {NaN, PInf, NInf, Num(1000)},
     sh \in {ShellDistinct, ShellShared},
     f \in {1, 2}}

\* four columns around center_x = 1.5: bearings +983, +464, -464, -983
ScenarioInputs ==
  {Input("f32", <<<<Num(2000), Num(1000), Num(3000), NaN>>>>, 3, cy4, sh,
         Limits(100, 10000), 1, 1, 0) :
     cy4 \in {0, 2},
     sh \in {Shell(-983, 983, 500, 4), Shell(-1000, 1000, 520, 4),
             Shell(-983, 983, 600, 4), Shell(-983, 983, 400, 5)}}

Inputs ==
  GridInputs \cup TallInputs \cup TallEdgeInputs \cup EdgeInputs \cup PairInputs \cup SpecialInputs
  \cup ScenarioInputs

Init ==
  \E in \in Inputs :
    /\ T = in.T
    /\ data = in.data
    /\ center_x2 = in.cx2
    /\ center_y4 = in.cy4
    /\ fx = in.fx
    /\ angle_min = in.shell.amin
    /\ angle_max = in.shell.amax
    /\ angle_increment = in.shell.ainc
    /\ range_min = in.lim.lo
    /\ range_max = in.lim.hi
    /\ ranges = Fresh(in.shell.len)
    /\ scan_height_ = in.h
    /\ scan_height = in.h
    /\ offset = 0
    /\ v = 0
    /\ u = 0
    /\ pc = "idle"
    /\ callsLeft = in.calls
    /\ setsLeft = in.sets
    /\ log = <<>>
    /\ results = NoResults

(***************************************************************************)
(* Operations.                                                             *)
(***************************************************************************)
\* set_scan_height (line 109), between calls
set_scan_height ==
  /\ pc = "idle"
  /\ setsLeft > 0
  /\ \E h \in 0..MaxScanHeight : scan_height_' = h
  /\ setsLeft' = setsLeft - 1
  /\ UNCHANGED <<T, data, center_x2, center_y4, fx, angle_min, angle_max,
                 angle_increment, range_min, range_max, ranges, scan_height,
                 offset, v, u, pc, callsLeft, log, results>>

\* convert_msg (line 67): hands convert a sentinel-filled scan and scan_height_
convert_msg ==
  /\ pc = "idle"
  /\ callsLeft > 0
  /\ callsLeft' = callsLeft - 1
  /\ ranges' = Fresh(RangesLen)
  /\ scan_height' = scan_height_
  /\ log' = <<>>
  /\ pc' = "entry"
  /\ UNCHANGED <<T, data, center_x2, center_y4, fx, angle_min, angle_max,
                 angle_increment, range_min, range_max, scan_height_, offset,
                 v, u, setsLeft, results>>

\* lines 191-205 (init of the row loop)
convert_entry ==
  /\ pc = "entry"
  /\ offset' = Offset(center_y4, scan_height)
  /\ v' = Offset(center_y4, scan_height)
  /\ pc' = "row"
  /\ UNCHANGED <<T, data, center_x2, center_y4, fx, angle_min, angle_max,
                 angle_increment, range_min, range_max, ranges, scan_height_,
                 scan_height, u, callsLeft, setsLeft, log, results>>

\* line 205: v < offset + scan_height_
for_v ==
  /\ pc = "row"
  /\ IF v < offset + scan_height_
     THEN u' = 0 /\ pc' = "col"
     ELSE u' = u /\ pc' = "done"
  /\ UNCHANGED <<T, data, center_x2, center_y4, fx, angle_min, angle_max,
                 angle_increment, range_min, range_max, ranges, scan_height_,
                 scan_height, offset, v, callsLeft, setsLeft, log, results>>

\* lines 206-228: one run of the inner loop body, then ++u
for_u ==
  /\ pc = "col"
  /\ u < Width
  /\ \E depth \in DepthRead(v, u) :
       IF depth = Fault
       THEN /\ pc' = "fault"
            /\ UNCHANGED <<ranges, u, log>>
       ELSE LET index == Index(u)
                r == Range(T, depth, u)
            IN \E old \in RangesRead(index) :
                 IF old = Fault
                 THEN /\ pc' = "fault"
                      /\ UNCHANGED <<ranges, u, log>>
                 ELSE LET new == Reduce(r, old, range_min, range_max)
                      IN /\ ranges' = Store(ranges, index, new)
                         /\ log' = Append(log, [v |-> v, u |-> u, depth |-> depth,
                                                 idx |-> index, r |-> r,
                                                 wrote |-> use_point(r, old, range_min, range_max)])
                         /\ u' = u + 1
                         /\ pc' = "col"
  /\ UNCHANGED <<T, data, center_x2, center_y4, fx, angle_min, angle_max,
                 angle_increment, range_min, range_max, scan_height_,
                 scan_height, offset, v, callsLeft, setsLeft, results>>

\* line 206 (u reaches width), line 205 (++v)
for_u_exit ==
  /\ pc = "col"
  /\ u >= Width
  /\ v' = v + 1
  /\ pc' = "row"
  /\ UNCHANGED <<T, data, center_x2, center_y4, fx, angle_min, angle_max,
                 angle_increment, range_min, range_max, ranges, scan_height_,
                 scan_height, offset, u, callsLeft, setsLeft, log, results>>

\* line 231: convert returns; the scan goes back to the caller
convert_return ==
  /\ pc = "done"
  /\ results' = [results EXCEPT ![scan_height] = ranges]
  /\ pc' = "idle"
  /\ UNCHANGED <<T, data, center_x2, center_y4, fx, angle_min, angle_max,
                 angle_increment, range_min, range_max, ranges, scan_height_,
                 scan_height, offset, v, u, callsLeft, setsLeft, log>>

Next ==
  \/ set_scan_height
  \/ convert_msg
  \/ convert_entry
  \/ for_v
  \/ for_u
  \/ for_u_exit
  \/ convert_return

Spec == Init /\ [][Next]_vars
(***************************************************************************)
(* Vocabulary of the claims.                                               *)
(***************************************************************************)
InCall == pc \in {"row", "col", "done"}
Bins == 0..(RangesLen - 1)
Pixels == DOMAIN log

\* strictly between range_min and range_max
ClaimInRange(x) == x.k = "num" /\ range_min.n < x.n /\ x.n < range_max.n

\* depth == 0 (integer encoding), NaN or an infinity (float encoding)
ClaimInvalid(depth) ==
  IF T = "u16" THEN depth = Num(0) ELSE depth.k \in {"nan", "inf"}

MinOf(S) == CHOOSE m \in S : \A x \in S : m <= x

\* in-range candidate ranges of valid pixels the loop has binned at b
CandidatesOf(b) ==
  {log[j].r.n : j \in {i \in Pixels : /\ log[i].idx = b
                                      /\ ~ClaimInvalid(log[i].depth)
                                      /\ ClaimInRange(log[i].r)}}

\* C1: whatever the order in which the pixels were visited, a bin that
\* received in-range candidates of valid pixels holds the least of them.
C1_ClosestWins ==
  InCall => \A b \in Bins :
              CandidatesOf(b) # {} => ranges[b + 1] = Num(MinOf(CandidatesOf(b)))

\* C1 witness: a returned call in which one bin received the closer range
\* first and another bin received the closer range last.
C1_Witness ==
  /\ pc = "done"
  /\ \E i, j \in Pixels :
       /\ i < j /\ log[i].idx = log[j].idx /\ log[i].idx \in Bins
       /\ ClaimInRange(log[i].r) /\ ClaimInRange(log[j].r)
       /\ log[i].r.n < log[j].r.n
       /\ ranges[log[i].idx + 1] = log[i].r
  /\ \E i, j \in Pixels :
       /\ i < j /\ log[i].idx = log[j].idx /\ log[i].idx \in Bins
       /\ ClaimInRange(log[i].r) /\ ClaimInRange(log[j].r)
       /\ log[i].r.n > log[j].r.n
       /\ ranges[log[j].idx + 1] = log[j].r

\* C2 (as claimed): every access to ranges uses an index i, 0 <= i < len.
C2_IndexInBounds ==
  \A j \in Pixels : log[j].idx \in Bins

WindowOutOfImage ==
  \/ Offset(center_y4, scan_height) < 0
  \/ Offset(center_y4, scan_height) + scan_height > Height
MalformedShell ==
  RangesLen # ((angle_max - angle_min) \div angle_increment) + 1

\* C3 (as claimed): with the window out of the image or the ranges buffer
\* inconsistent with the angles, a call reads no sample, writes no bin and
\* processes no pixel.
C3_RefusesToRun ==
  (pc # "idle" /\ (WindowOutOfImage \/ MalformedShell))
    => (log = <<>> /\ pc # "fault" /\ ranges = Fresh(RangesLen))

Scenario ==
  /\ T = "f32"
  /\ data = <<<<Num(2000), Num(1000), Num(3000), NaN>>>>
  /\ fx = 1 /\ center_x2 = 3
  /\ range_min = Num(100) /\ range_max = Num(10000)
  /\ scan_height = 1
  /\ \A c \in 0..3 : Index(c) \in Bins
  /\ \A c, d \in 0..3 : c # d => Index(c) # Index(d)

\* C5 (as claimed): in the scenario the bins of columns 0..3 end as
\* hypot(3.0, 2.0), 1.0, hypot(1.5, 3.0) and the sentinel.
C5_ScenarioAsClaimed ==
  (Scenario /\ pc = "done") =>
    /\ ranges[Index(0) + 1] = Num(3605)
    /\ ranges[Index(1) + 1] = Num(1000)
    /\ ranges[Index(2) + 1] = Num(3354)
    /\ ranges[Index(3) + 1] = Sentinel

\* C5 (amended): in the scenario the bins of columns 0..3 end as
\* hypot(3.0, 2.0), hypot(0.5, 1.0), hypot(1.5, 3.0) and the sentinel.
C5_Scenario ==
  (Scenario /\ pc = "done") =>
    /\ ranges[Index(0) + 1] = Num(3605)
    /\ ranges[Index(1) + 1] = Num(1118)
    /\ ranges[Index(2) + 1] = Num(3354)
    /\ ranges[Index(3) + 1] = Sentinel

\* C5 witness: the scenario's call has returned, columns 3, 2, 1, 0 in
\* bins 0, 1, 2, 3.
C5_Witness ==
  /\ Scenario /\ pc = "done"
  /\ ranges = <<Sentinel, Num(3354), Num(1118), Num(3605)>>

WindowInside(n) ==
  /\ Offset(center_y4, n) >= 0
  /\ Offset(center_y4, n) + n <= Height

\* C6: every bin in range after a call with scan height 1 is in range, and
\* no farther, after a call with scan height N whose window is in the image.
C6_TallerNeverWorse ==
  \A n \in 1..MaxScanHeight :
    (results[1] # <<>> /\ results[n] # <<>> /\ WindowInside(n)) =>
      \A b \in Bins :
        ClaimInRange(results[1][b + 1]) =>
          /\ ClaimInRange(results[n][b + 1])
          /\ results[n][b + 1].n <= results[1][b + 1].n

\* C6 witness: both calls have returned, the taller window has tightened
\* one bin, and populated a bin the one-row call left at the sentinel.
C6_Witness ==
  \E n \in 2..MaxScanHeight :
    /\ results[1] # <<>> /\ results[n] # <<>> /\ WindowInside(n)
    /\ \E b \in Bins : /\ ClaimInRange(results[1][b + 1])
                       /\ results[n][b + 1].n < results[1][b + 1].n
    /\ \E b \in Bins : /\ results[1][b + 1] = Sentinel
                       /\ ClaimInRange(results[n][b + 1])

StoresInsideRanges ==
  \A j \in Pixels : log[j].wrote => log[j].idx \in Bins

ConvertStepFrame ==
  pc \in {"entry", "row", "col"} =>
    /\ UNCHANGED <<T, data, center_x2, center_y4, fx, angle_min, angle_max,
                   angle_increment, range_min, range_max, scan_height_>>
    /\ Len(ranges') = Len(ranges)
    /\ StoresInsideRanges'

\* C7 (as claimed): a step of convert changes nothing but entries of
\* ranges: not the scan's angles, limits or length, not the image, the
\* intrinsics or the configuration, and no memory outside the buffer.
C7_OnlyRangesEntries == [][ConvertStepFrame]_vars

\* C8 (as claimed): no call is aborted, and a call that has returned ran
\* the loop body once on each pixel of scan_height rows from offset on.
C8_RunsToCompletion ==
  /\ pc # "fault"
  /\ pc = "done" =>
       /\ Len(log) = scan_height * Width
       /\ {<<log[j].v, log[j].u>> : j \in Pixels}
            = (offset..(offset + scan_height - 1)) \X (0..(Width - 1))

\* C9 (as claimed): the index of every pixel is the floor of
\* (theta - angle_min) / angle_increment.
C9_FloorIndex ==
  \A j \in Pixels :
    log[j].idx = (Bearing(log[j].u) - angle_min) \div angle_increment

\* the integers nearest to n4 / 4 (both neighbours on a tie)
Nearest(n4) == {i \in -8..8 : 4 * i - 2 <= n4 /\ n4 <= 4 * i + 2}

\* C10 (as claimed): offset is principal_point_y - scan_height/2 (an exact
\* half) rounded to the nearest integer, and a call that has returned read
\* the rows offset .. offset + scan_height - 1.
C10_RoundedOffset ==
  (InCall /\ scan_height >= 1) =>
    /\ offset \in Nearest(center_y4 - 2 * scan_height)
    /\ pc = "done" =>
         {log[j].v : j \in Pixels} = offset..(offset + scan_height - 1)
====
